---- MODULE Spec2Model ----
(***************************************************************************)
(* Resilience and concurrency-control primitives of the POS platform:      *)
(* CircuitBreaker, Bulkhead and WorkerPool (pkg/performance), the          *)
(* RateLimiter middleware (pkg/middleware/ratelimit.go) and the            *)
(* SingleFlightCache (package cache) and FanIn (pkg/performance).  Each    *)
(* primitive has its own specification (SpecCB, SpecBH, SpecWP, SpecRL,    *)
(* SpecSF, SpecFI) over its own                                            *)
(* variables; the variables of the other primitives stay at their          *)
(* constructed values.                                                     *)
(***************************************************************************)
EXTENDS Integers, Sequences, FiniteSets, TLC

VARIABLES
    cb,        \* the CircuitBreaker struct, plus what its observer has been told
    cbpc,      \* per caller: position inside CircuitBreaker.Call
    now,       \* the clock read by time.Now / time.Since
    cbhist,    \* history of the breaker's run (counters of calls, the trial, ...)
    cbev,      \* the last step taken on the breaker
    bh,        \* the Bulkhead struct (semaphore = number of buffered tokens)
    bhpc,      \* per caller: position inside Bulkhead.Execute
    bhout,     \* per caller: how the fn of the admitted call ends
    bhhist,    \* history of the bulkhead's run
    bhev,      \* the last step taken on the bulkhead
    wp,        \* the WorkerPool struct (taskQueue, its closed flag, ctx, wg)
    wpw,       \* per worker goroutine: position and the task it runs
    wps,       \* per submitter: position inside Submit and its task
    wpst,      \* per caller of Stop: position inside Stop
    wphist,    \* history of the pool's run (tasks and what became of them)
    wpev,      \* the last return of Submit
    rl,        \* the RateLimiter, the shared store's record of the key, the clock
    rlc,       \* per service instance: position inside the middleware, its now
    rlhist,    \* history of the limiter's run
    rlev,      \* the last step taken on the limiter
    sf,        \* the SingleFlightCache: the cache's entries, the group's calls
    sfc,       \* per caller: position inside GetWithFallback, key and result
    sfhist,    \* history of the cache's run (calls, fallback invocations)
    sfev,      \* the last return of GetWithFallback
    fi,        \* one call of FanIn: inputs, forwarding goroutines, wg, output
    fihist     \* history of the merge (items sent and items delivered)

cbVars == <<cb, cbpc, now, cbhist, cbev>>
bhVars == <<bh, bhpc, bhout, bhhist, bhev>>
wpVars == <<wp, wpw, wps, wpst, wphist, wpev>>
rlVars == <<rl, rlc, rlhist, rlev>>
sfVars == <<sf, sfc, sfhist, sfev>>
fiVars == <<fi, fihist>>
vars == <<cb, cbpc, now, cbhist, cbev, bh, bhpc, bhout, bhhist, bhev,
          wp, wpw, wps, wpst, wphist, wpev, rl, rlc, rlhist, rlev,
          sf, sfc, sfhist, sfev, fi, fihist>>

\* What the steps of one primitive leave alone: the other primitives.
nonCbVars == <<bhVars, wpVars, rlVars, sfVars, fiVars>>
nonBhVars == <<cbVars, wpVars, rlVars, sfVars, fiVars>>
nonWpVars == <<cbVars, bhVars, rlVars, sfVars, fiVars>>
nonRlVars == <<cbVars, bhVars, wpVars, sfVars, fiVars>>
nonSfVars == <<cbVars, bhVars, wpVars, rlVars, fiVars>>
nonFiVars == <<cbVars, bhVars, wpVars, rlVars, sfVars>>

----------------------------------------------------------------------------
(* Bounds of the model *)

NumCallers == 2          \* concurrent callers of CircuitBreaker.Call
MaxCalls == 4            \* Call invocations in one run
MaxTime == 3             \* clock readings 0..MaxTime
MaxFailuresBound == 2    \* maxFailures is drawn from 1..MaxFailuresBound
MaxResetTimeout == 2     \* resetTimeout is drawn from 1..MaxResetTimeout
NumExecutors == 3        \* concurrent callers of Bulkhead.Execute
MaxConcurrencyBound == 2 \* maxConcurrency is drawn from 1..MaxConcurrencyBound
MaxWorkers == 2          \* workers is drawn from 1..MaxWorkers
MaxQueueSize == 2        \* queueSize is drawn from 1..MaxQueueSize
MaxTasks == 3            \* tasks submitted in one run
NumSubmitters == 2       \* concurrent callers of WorkerPool.Submit
NumStoppers == 2         \* callers of WorkerPool.Stop
NumInstances == 2        \* service instances running the rate-limit middleware
MaxLimit == 2            \* limit is drawn from 1..MaxLimit
MaxWindow == 2           \* window (seconds) is drawn from 1..MaxWindow
MaxClock == 2            \* Unix seconds 0..MaxClock
MaxChecks == 3           \* requests checked in one run
NumGetters == 2          \* concurrent callers of GetWithFallback
MaxGets == 3             \* GetWithFallback invocations in one run
MaxTtl == 1              \* ttl (clock units) is drawn from 1..MaxTtl
MaxCacheClock == 1       \* the cache's clock reads 0..MaxCacheClock
NumInputs == 2           \* FanIn is called with 0..NumInputs input channels
MaxItems == 2            \* items a producer sends on its input
MaxInputCap == 1         \* capacity of the input channels, 0..MaxInputCap

Callers == 1..NumCallers
Executors == 1..NumExecutors
WorkerIds == 1..MaxWorkers
Submitters == 1..NumSubmitters
Stoppers == 1..NumStoppers
Tasks == 1..MaxTasks
Instances == 1..NumInstances
Getters == 1..NumGetters
Keys == {"k1", "k2"}
FirstKey == "k1"
NoCaller == 0 - 1   \* no caller (callers are numbered from 1)

----------------------------------------------------------------------------
(* CircuitBreaker *)

StateClosed == 0
StateOpen == 1
StateHalfOpen == 2

\* time.Time{} : the zero time lies before every clock reading by more than
\* any resetTimeout.
ZeroTime == 0 - 1000

\* time.Since(t)
Since(t) == now - t

NewCircuitBreaker(maxFailures, resetTimeout) ==
    [maxFailures |-> maxFailures,
     resetTimeout |-> resetTimeout,
     state |-> StateClosed,
     failureCount |-> 0,
     lastFailTime |-> ZeroTime,
     onStateChange |-> FALSE,
     notified |-> <<>>,
     mu |-> NoCaller,          \* who holds mu while the observer it called runs
     reentered |-> FALSE]      \* that observer has called back into the breaker

\* setState calling the observer on every call, changed state or not.
setStateAlwaysNotifies(b, newState) ==
    [b EXCEPT !.state = newState,
              !.notified = IF b.onStateChange
                           THEN Append(@, <<b.state, newState>>) ELSE @]

\* setState: the observer runs synchronously, inside the caller's critical
\* section; notified is the sequence of (from, to) pairs it has received.
setState(b, newState) ==
    IF b.state # newState
    THEN [b EXCEPT !.state = newState,
                   !.notified = IF b.onStateChange
                                THEN Append(@, <<b.state, newState>>) ELSE @]
    ELSE b

\* recordFailure with the threshold test ">" instead of ">="
recordFailureOffByOne(b, t) ==
    LET c == [b EXCEPT !.failureCount = @ + 1, !.lastFailTime = t]
    IN  IF c.state = StateHalfOpen THEN setState(c, StateOpen)
        ELSE IF c.failureCount > c.maxFailures THEN setState(c, StateOpen)
        ELSE c

\* recordFailure that closes the breaker when it finds it open
recordFailureReclose(b, t) ==
    LET c == [b EXCEPT !.failureCount = @ + 1, !.lastFailTime = t]
    IN  IF c.state = StateHalfOpen THEN setState(c, StateOpen)
        ELSE IF c.state = StateOpen THEN setState(c, StateClosed)
        ELSE IF c.failureCount >= c.maxFailures THEN setState(c, StateOpen)
        ELSE c

recordFailure(b, t) ==
    LET c == [b EXCEPT !.failureCount = @ + 1, !.lastFailTime = t]
    IN  IF c.state = StateHalfOpen THEN setState(c, StateOpen)
        ELSE IF c.failureCount >= c.maxFailures THEN setState(c, StateOpen)
        ELSE c

recordSuccess(b) ==
    IF b.state = StateHalfOpen
    THEN [setState(b, StateClosed) EXCEPT !.failureCount = 0]
    ELSE [b EXCEPT !.failureCount = 0]

\* The open-circuit test of Call with the timeout comparison dropped:
\* an open breaker always lets the call through as a trial.
CallGateNoTimeout(b) ==
    IF b.state = StateOpen
    THEN [admit |-> TRUE, b |-> setState(b, StateHalfOpen)]
    ELSE [admit |-> TRUE, b |-> b]

\* The first critical section of Call (the open-circuit test): whether the
\* call goes on to fn, and the breaker it leaves behind.
CallGate(b) ==
    IF b.state = StateOpen
    THEN IF Since(b.lastFailTime) >= b.resetTimeout
         THEN [admit |-> TRUE, b |-> setState(b, StateHalfOpen)]
         ELSE [admit |-> FALSE, b |-> b]
    ELSE [admit |-> TRUE, b |-> b]

InFn == {p \in Callers : cbpc[p] = "fn"}

\* OnStateChange(fn): registers the observer.
OnStateChange ==
    /\ cb.mu = NoCaller
    /\ ~cb.onStateChange
    /\ cb' = [cb EXCEPT !.onStateChange = TRUE]
    /\ cbev' = [op |-> "OnStateChange", p |-> NoCaller, res |-> "nil", pre |-> cb.state]
    /\ UNCHANGED <<cbpc, now, cbhist>>
    /\ UNCHANGED nonCbVars

\* The critical section of caller p that takes the breaker from b0 to b1: if
\* setState called the observer in it, the observer is running and p still
\* holds mu.
InObserver(b0, b1, p) ==
    IF Len(b1.notified) > Len(b0.notified) THEN [b1 EXCEPT !.mu = p] ELSE b1

\* Call, from entry up to the invocation of fn (lock; test; unlock).
CallBegin(p) ==
    /\ cb.mu = NoCaller
    /\ cbpc[p] = "idle"
    /\ cbhist.calls < MaxCalls
    /\ LET g == CallGate(cb)
           trialNow == cb.state = StateOpen /\ g.b.state = StateHalfOpen
       IN  /\ cb' = InObserver(cb, g.b, p)
           /\ cbpc' = [cbpc EXCEPT ![p] = IF g.admit THEN "fn" ELSE "idle"]
           /\ cbhist' = [cbhist EXCEPT
                  !.calls = @ + 1,
                  !.fnCalls = IF g.admit THEN @ + 1 ELSE @,
                  !.overlap = @ \/ (g.admit /\ InFn # {}),
                  !.trial = IF trialNow THEN p ELSE @]
           /\ cbev' = [op |-> "Call", p |-> p,
                       res |-> IF g.admit THEN "fn" ELSE "ErrCircuitOpen",
                       pre |-> cb.state]
    /\ UNCHANGED now
    /\ UNCHANGED nonCbVars

\* Call, from the return of fn to the end (lock; record the outcome; unlock).
CallEnd(p, failed) ==
    /\ cb.mu = NoCaller
    /\ cbpc[p] = "fn"
    /\ cb' = InObserver(cb, IF failed THEN recordFailure(cb, now)
                            ELSE recordSuccess(cb), p)
    /\ cbpc' = [cbpc EXCEPT ![p] = "idle"]
    /\ cbhist' = [cbhist EXCEPT
           !.streak = IF failed THEN @ + 1 ELSE 0,
           !.trial = IF @ = p THEN NoCaller ELSE @]
    /\ cbev' = [op |-> IF cbhist.trial = p THEN "TrialReturn" ELSE "Return",
                p |-> p,
                res |-> IF failed THEN "err" ELSE "nil",
                pre |-> cb.state]
    /\ UNCHANGED now
    /\ UNCHANGED nonCbVars

\* The observer returns to setState; the critical section that called it
\* ends and mu is released.
ObserverReturn(p) ==
    /\ cb.mu = p
    /\ ~cb.reentered
    /\ cb' = [cb EXCEPT !.mu = NoCaller]
    /\ UNCHANGED <<cbpc, now, cbhist, cbev>>
    /\ UNCHANGED nonCbVars

\* The observer calls State() or Call() on the breaker: it waits for mu, which
\* its own caller holds (sync.RWMutex is not reentrant).
ObserverReenters(p) ==
    /\ cb.mu = p
    /\ ~cb.reentered
    /\ cb' = [cb EXCEPT !.reentered = TRUE]
    /\ UNCHANGED <<cbpc, now, cbhist, cbev>>
    /\ UNCHANGED nonCbVars

\* The clock advances.
Tick ==
    /\ now < MaxTime
    /\ now' = now + 1
    /\ cbev' = [op |-> "Tick", p |-> NoCaller, res |-> "nil", pre |-> cb.state]
    /\ UNCHANGED <<cb, cbpc, cbhist>>
    /\ UNCHANGED nonCbVars

----------------------------------------------------------------------------
(* Bulkhead *)

ErrBulkheadFull == "ErrBulkheadFull"
CtxErr == "context canceled"

NewBulkhead(maxConcurrency) ==
    [maxConcurrency |-> maxConcurrency, semaphore |-> 0, current |-> 0]

BulkheadIdle ==
    /\ bh = NewBulkhead(1)
    /\ bhpc = [p \in Executors |-> "idle"]
    /\ bhout = [p \in Executors |-> "none"]
    /\ bhhist = [full |-> FALSE, panicked |-> FALSE]
    /\ bhev = [op |-> "New", p |-> NoCaller, res |-> "nil",
               cancelled |-> FALSE, free |-> TRUE]

\* The select of Execute with the capacity test off by one.
SelectCasesOverAdmit(b, cancelled) ==
    LET ready == (IF b.semaphore <= b.maxConcurrency THEN {"send"} ELSE {})
                 \cup (IF cancelled THEN {"done"} ELSE {})
    IN  IF ready = {} THEN {"default"} ELSE ready

\* The select of Execute: the cases it may take.  The send is ready while the
\* channel holds fewer than maxConcurrency tokens, ctx.Done() is ready once the
\* context is cancelled; Go picks any one of the ready cases, and the default
\* case only when none is ready.
SelectCases(b, cancelled) ==
    LET ready == (IF b.semaphore < b.maxConcurrency THEN {"send"} ELSE {})
                 \cup (IF cancelled THEN {"done"} ELSE {})
    IN  IF ready = {} THEN {"default"} ELSE ready

\* fn() followed by an undeferred release: a panic skips the release.
AfterFnNoDefer(out) == IF out = "panic" THEN "idle" ELSE "deferRecv"

\* Where Execute continues when fn ends with out (nil, err or panic): the
\* release is deferred, so it runs in every case.
AfterFn(out) == "deferRecv"

\* Execute, the select: admission, cancellation or rejection.
Execute(p, cancelled) ==
    /\ bhpc[p] = "idle"
    /\ \E c \in SelectCases(bh, cancelled) :
          /\ bh' = IF c = "send" THEN [bh EXCEPT !.semaphore = @ + 1] ELSE bh
          /\ bhpc' = [bhpc EXCEPT ![p] = IF c = "send" THEN "acquired" ELSE "idle"]
          /\ bhhist' = [bhhist EXCEPT !.full = @ \/ c = "default"]
          /\ bhev' = [op |-> "Execute", p |-> p,
                      res |-> CASE c = "send" -> "admitted"
                                [] c = "done" -> CtxErr
                                [] OTHER -> ErrBulkheadFull,
                      cancelled |-> cancelled,
                      free |-> bh.semaphore < bh.maxConcurrency]
    /\ UNCHANGED bhout
    /\ UNCHANGED nonBhVars

\* Execute, after admission: lock; current++; unlock; then fn starts.
Enter(p) ==
    /\ bhpc[p] = "acquired"
    /\ bh' = [bh EXCEPT !.current = @ + 1]
    /\ bhpc' = [bhpc EXCEPT ![p] = "fn"]
    /\ bhev' = [bhev EXCEPT !.op = "Enter", !.p = p, !.res = "nil"]
    /\ UNCHANGED <<bhout, bhhist>>
    /\ UNCHANGED nonBhVars

\* fn ends: it returns nil, returns an error or panics.
FnEnd(p, out) ==
    /\ bhpc[p] = "fn"
    /\ bhpc' = [bhpc EXCEPT ![p] = AfterFn(out)]
    /\ bhout' = [bhout EXCEPT ![p] = out]
    /\ bhev' = [bhev EXCEPT !.op = "FnEnd", !.p = p, !.res = out]
    /\ UNCHANGED <<bh, bhhist>>
    /\ UNCHANGED nonBhVars

\* The deferred function, first statement: <-b.semaphore.
DeferRecv(p) ==
    /\ bhpc[p] = "deferRecv"
    /\ bh.semaphore > 0
    /\ bh' = [bh EXCEPT !.semaphore = @ - 1]
    /\ bhpc' = [bhpc EXCEPT ![p] = "deferDec"]
    /\ bhev' = [bhev EXCEPT !.op = "DeferRecv", !.p = p, !.res = "nil"]
    /\ UNCHANGED <<bhout, bhhist>>
    /\ UNCHANGED nonBhVars

\* The deferred function, rest: lock; current--; unlock; Execute returns.
DeferDec(p) ==
    /\ bhpc[p] = "deferDec"
    /\ bh' = [bh EXCEPT !.current = @ - 1]
    /\ bhpc' = [bhpc EXCEPT ![p] = "idle"]
    /\ bhout' = [bhout EXCEPT ![p] = "none"]
    /\ bhhist' = [bhhist EXCEPT !.panicked = @ \/ bhout[p] = "panic"]
    /\ bhev' = [bhev EXCEPT !.op = "Return", !.p = p, !.res = bhout[p]]
    /\ UNCHANGED nonBhVars

\* CurrentConcurrency() and MaxConcurrency()
CurrentConcurrency == bh.current
MaxConcurrency == bh.maxConcurrency

----------------------------------------------------------------------------
(* WorkerPool *)

NoTask == 0 - 1

NewWorkerPool(workers, queueSize) ==
    [workers |-> workers,
     queueSize |-> queueSize,
     taskQueue |-> <<>>,       \* buffered tasks, oldest first
     closed |-> FALSE,         \* close(taskQueue) has run
     cancelled |-> FALSE,      \* cancel() has run: ctx.Done() is closed
     wg |-> 0,
     started |-> FALSE]

PoolIdle ==
    /\ wp = NewWorkerPool(1, 1)
    /\ wpw = [w \in WorkerIds |-> [pc |-> "none", task |-> NoTask]]
    /\ wps = [s \in Submitters |-> [pc |-> "idle", task |-> NoTask]]
    /\ wpst = [c \in Stoppers |-> "idle"]
    /\ wphist = [next |-> 1,
                 status |-> [t \in Tasks |-> "new"],
                 accepted |-> {},
                 blocked |-> {},
                 stopAfterStart |-> FALSE,
                 crashed |-> FALSE]
    /\ wpev = [op |-> "New", res |-> "nil"]

\* The select of Submit with the buffer taken to hold one task more.
SubmitCasesOverfill(w) ==
    (IF w.closed THEN {"panic"} ELSE {})
    \cup (IF ~w.closed /\ Len(w.taskQueue) <= w.queueSize THEN {"send"} ELSE {})
    \cup (IF w.cancelled THEN {"done"} ELSE {})

\* The select of Submit: the cases that can proceed.  A send on the closed
\* channel proceeds by panicking; a send on the open channel proceeds while the
\* buffer has room; ctx.Done() proceeds once cancel() has run.  With no case
\* able to proceed the caller stays blocked.
SubmitCases(w) ==
    (IF w.closed THEN {"panic"} ELSE {})
    \cup (IF ~w.closed /\ Len(w.taskQueue) < w.queueSize THEN {"send"} ELSE {})
    \cup (IF w.cancelled THEN {"done"} ELSE {})

\* The select of worker: a receive proceeds on a buffered task, and on the
\* closed and drained channel (it yields nil); ctx.Done() once cancelled.
WorkerCases(w) ==
    (IF Len(w.taskQueue) > 0 THEN {"recv"} ELSE {})
    \cup (IF w.closed /\ Len(w.taskQueue) = 0 THEN {"recvNil"} ELSE {})
    \cup (IF w.cancelled THEN {"done"} ELSE {})

Running == {w \in WorkerIds : wpw[w].pc = "running"}

\* Start: wg.Add(1) and go worker(i), workers times.
Start ==
    /\ ~wphist.crashed
    /\ ~wp.started
    /\ wp' = [wp EXCEPT !.started = TRUE, !.wg = @ + wp.workers]
    /\ wpw' = [w \in WorkerIds |->
                 IF w <= wp.workers THEN [pc |-> "select", task |-> NoTask]
                 ELSE wpw[w]]
    /\ UNCHANGED wpev
    /\ UNCHANGED <<wps, wpst, wphist>>
    /\ UNCHANGED nonWpVars

\* Submit is called with a new task: the caller arrives at the select.  The
\* callers run the same code: the call is made by the lowest-numbered caller
\* that is free.
SubmitCall(s) ==
    /\ ~wphist.crashed
    /\ wps[s].pc = "idle"
    /\ \A r \in Submitters : r < s => wps[r].pc # "idle"
    /\ wphist.next <= MaxTasks
    /\ wps' = [wps EXCEPT ![s] = [pc |-> "submitting", task |-> wphist.next]]
    /\ wphist' = [wphist EXCEPT
           !.next = @ + 1,
           !.status[wphist.next] = "submitting",
           !.blocked = IF /\ Len(wp.taskQueue) = wp.queueSize
                          /\ ~wp.closed /\ ~wp.cancelled
                          /\ wp.started
                          /\ \A w \in 1..wp.workers : wpw[w].pc = "running"
                       THEN @ \cup {wphist.next} ELSE @]
    /\ UNCHANGED wpev
    /\ UNCHANGED <<wp, wpw, wpst>>
    /\ UNCHANGED nonWpVars

\* Submit, the select takes a case: the task is buffered and Submit returns
\* nil, or Submit returns ctx.Err(), or the send panics.
SubmitSelect(s) ==
    /\ ~wphist.crashed
    /\ wps[s].pc = "submitting"
    /\ \E c \in SubmitCases(wp) :
          LET t == wps[s].task
          IN  /\ wp' = IF c = "send"
                       THEN [wp EXCEPT !.taskQueue = Append(@, t)] ELSE wp
              /\ wphist' = [wphist EXCEPT
                     !.status[t] = CASE c = "send" -> "queued"
                                     [] c = "done" -> "refused"
                                     [] OTHER -> "panicked",
                     !.accepted = IF c = "send" THEN @ \cup {t} ELSE @,
                     !.crashed = @ \/ c = "panic"]
              /\ wpev' = [op |-> "Submit",
                          res |-> CASE c = "send" -> "nil"
                                    [] c = "done" -> CtxErr
                                    [] OTHER -> "panic"]
    /\ wps' = [wps EXCEPT ![s] = [pc |-> "idle", task |-> NoTask]]
    /\ UNCHANGED <<wpw, wpst>>
    /\ UNCHANGED nonWpVars

\* worker, the select takes a case: a task is received and started, nil is
\* received from the closed channel (and skipped), or the worker returns
\* (deferred wg.Done()).
WorkerSelect(w) ==
    /\ ~wphist.crashed
    /\ wpw[w].pc = "select"
    /\ \E c \in WorkerCases(wp) :
          /\ wp' = CASE c = "recv" -> [wp EXCEPT !.taskQueue = Tail(@)]
                     [] c = "done" -> [wp EXCEPT !.wg = @ - 1]
                     [] OTHER -> wp
          /\ wpw' = CASE c = "recv" ->
                           [wpw EXCEPT ![w] = [pc |-> "running",
                                               task |-> Head(wp.taskQueue)]]
                      [] c = "done" ->
                           [wpw EXCEPT ![w] = [pc |-> "exited", task |-> NoTask]]
                      [] OTHER -> wpw
          /\ wphist' = IF c = "recv"
                       THEN [wphist EXCEPT !.status[Head(wp.taskQueue)] = "running"]
                       ELSE wphist
          /\ UNCHANGED wpev
    /\ UNCHANGED <<wps, wpst>>
    /\ UNCHANGED nonWpVars

\* worker: task() returns; back to the select.
TaskDone(w) ==
    /\ ~wphist.crashed
    /\ wpw[w].pc = "running"
    /\ wpw' = [wpw EXCEPT ![w] = [pc |-> "select", task |-> NoTask]]
    /\ wphist' = [wphist EXCEPT !.status[wpw[w].task] = "done"]
    /\ UNCHANGED wpev
    /\ UNCHANGED <<wp, wps, wpst>>
    /\ UNCHANGED nonWpVars

\* Stop, first statement: close(wp.taskQueue); closing a closed channel panics.
StopClose(c) ==
    /\ ~wphist.crashed
    /\ wpst[c] = "idle"
    /\ \A d \in Stoppers : d < c => wpst[d] # "idle"
    /\ wp' = [wp EXCEPT !.closed = TRUE]
    /\ wpst' = [wpst EXCEPT ![c] = IF wp.closed THEN "panicked" ELSE "closed"]
    /\ wphist' = [wphist EXCEPT
           !.crashed = @ \/ wp.closed,
           !.stopAfterStart = IF wp.closed THEN @ ELSE wp.started]
    /\ UNCHANGED wpev
    /\ UNCHANGED <<wpw, wps>>
    /\ UNCHANGED nonWpVars

\* Stop, second statement: wp.cancel().
StopCancel(c) ==
    /\ ~wphist.crashed
    /\ wpst[c] = "closed"
    /\ wp' = [wp EXCEPT !.cancelled = TRUE]
    /\ wpst' = [wpst EXCEPT ![c] = "waiting"]
    /\ UNCHANGED wpev
    /\ UNCHANGED <<wpw, wps, wphist>>
    /\ UNCHANGED nonWpVars

\* Stop, third statement: wp.wg.Wait() returns once the counter is 0.
StopWait(c) ==
    /\ ~wphist.crashed
    /\ wpst[c] = "waiting"
    /\ wp.wg = 0
    /\ wpst' = [wpst EXCEPT ![c] = "returned"]
    /\ UNCHANGED wpev
    /\ UNCHANGED <<wp, wpw, wps, wphist>>
    /\ UNCHANGED nonWpVars

----------------------------------------------------------------------------
(* RateLimiter: the middleware's check of one identifier, whose record in the
   shared store is the sorted set under the key "ratelimit:<identifier>" *)

StatusTooManyRequests == 429
NoExpiry == 0 - 1

\* NewRateLimiter, with the key absent from the store.
NewRateLimiter(limit, window) ==
    [limit |-> limit,
     window |-> window,      \* whole seconds
     zset |-> {},            \* members of the sorted set, with their scores
     expireAt |-> NoExpiry,  \* when the key's time to live runs out
     clock |-> 0]            \* time.Now().Unix()

\* An instance with no request in hand.
IdleCheck == [pc |-> "idle", now |-> 0, quiet |-> FALSE]

LimiterIdle ==
    /\ rl = NewRateLimiter(1, 1)
    /\ rlc = [i \in Instances |-> IdleCheck]
    /\ rlhist = [checks |-> 0, overlap |-> FALSE,
                 failed |-> FALSE, denied |-> FALSE, lastAdd |-> NoExpiry]
    /\ rlev = [op |-> "New", res |-> "nil", status |-> 200,
               retryAfter |-> 0, failOpen |-> FALSE, quiet |-> FALSE]

\* ZREMRANGEBYSCORE with the upper end of the range excluded.
ZRemRangeByScoreExclusive(z, min, max) ==
    {e \in z : ~(min <= e.score /\ e.score < max)}

\* ZREMRANGEBYSCORE key min max: removes the members whose score lies in
\* [min, max], both ends included.
ZRemRangeByScore(z, min, max) ==
    {e \in z : ~(min <= e.score /\ e.score <= max)}

\* ZCARD key
ZCard(z) == Cardinality(z)

\* ZADD key score member: a member already in the set keeps its place and takes
\* the new score; the set holds each member once.
ZAdd(z, score, member) ==
    {e \in z : e.member # member} \cup {[member |-> member, score |-> score]}

\* fmt.Sprintf("%d", now): the member is the decimal text of the Unix second,
\* one text per second (the text is identified with the number it spells).
MemberOf(t) == t

\* The decision after ZCard: an error lets the request through (fail open),
\* a count at or above the limit denies it, otherwise it is recorded.
Decide(ok, count, limit) ==
    IF ~ok THEN "next"
    ELSE IF count >= limit THEN "deny"
    ELSE "add"

Checking == {i \in Instances : rlc[i].pc # "idle"}

\* The request arrives: now := time.Now().Unix(); windowStart := now - window.
\* The instances run the same code on the same store: a request is handled by
\* the lowest-numbered instance that is free.
CheckBegin(i) ==
    /\ rlc[i].pc = "idle"
    /\ \A j \in Instances : j < i => rlc[j].pc # "idle"
    /\ rlhist.checks < MaxChecks
    /\ rlc' = [rlc EXCEPT ![i] =
                 [pc |-> "rem", now |-> rl.clock,
                  quiet |-> /\ rlhist.lastAdd # NoExpiry
                            /\ rl.clock - rlhist.lastAdd >= rl.window]]
    /\ rlhist' = [rlhist EXCEPT
           !.checks = @ + 1,
           !.overlap = @ \/ Checking # {}]
    /\ UNCHANGED <<rl, rlev>>
    /\ UNCHANGED nonRlVars

\* ZRemRangeByScore(ctx, key, "0", windowStart); its error is not looked at.
\* A sorted set left without members is removed with its time to live.
\* ok: the store is reachable and carries the operation out.
CheckRemove(i, ok) ==
    /\ rlc[i].pc = "rem"
    /\ LET z == ZRemRangeByScore(rl.zset, 0, rlc[i].now - rl.window)
       IN  rl' = IF ok
                 THEN [rl EXCEPT !.zset = z,
                                 !.expireAt = IF z = {} THEN NoExpiry ELSE @]
                 ELSE rl
    /\ rlc' = [rlc EXCEPT ![i].pc = "card", ![i].quiet = @ /\ ok]
    /\ rlhist' = [rlhist EXCEPT !.failed = @ \/ ~ok]
    /\ UNCHANGED rlev
    /\ UNCHANGED nonRlVars

\* ZCard and the decision: c.Next() on error, 429 when count >= limit.
CheckCount(i, ok) ==
    /\ rlc[i].pc = "card"
    /\ LET d == Decide(ok, ZCard(rl.zset), rl.limit)
       IN  /\ rlc' = [rlc EXCEPT ![i] = IF d = "add" THEN [@ EXCEPT !.pc = "add"]
                                          ELSE IdleCheck]
           /\ rlhist' = [rlhist EXCEPT
                  !.failed = @ \/ ~ok,
                  !.denied = @ \/ d = "deny"]
           /\ rlev' = CASE d = "deny" ->
                            [op |-> "Check", res |-> "deny",
                             status |-> StatusTooManyRequests,
                             retryAfter |-> rl.window,
                             failOpen |-> FALSE, quiet |-> rlc[i].quiet]
                        [] d = "next" ->
                            [op |-> "Check", res |-> "allow",
                             status |-> 200, retryAfter |-> 0,
                             failOpen |-> TRUE, quiet |-> rlc[i].quiet]
                        [] OTHER -> rlev
    /\ UNCHANGED rl
    /\ UNCHANGED nonRlVars

\* Expire(ctx, key, window) on a key that exists sets its time to live.
Expire(r, ok) ==
    IF ok /\ r.zset # {} THEN [r EXCEPT !.expireAt = r.clock + r.window] ELSE r

\* ZAdd(ctx, key, Z{Score: now, Member: Sprintf("%d", now)}), then
\* Expire(ctx, key, window); neither error is looked at. Then c.Next(): the
\* request is allowed.
CheckAdd(i, okAdd, okExpire) ==
    /\ rlc[i].pc = "add"
    /\ LET added == IF okAdd
                    THEN [rl EXCEPT
                            !.zset = ZAdd(@, rlc[i].now, MemberOf(rlc[i].now))]
                    ELSE rl
       IN  rl' = Expire(added, okExpire)
    /\ rlc' = [j \in Instances |->
                 IF j = i THEN IdleCheck
                 ELSE [rlc[j] EXCEPT !.quiet = @ /\ ~okAdd]]
    /\ rlhist' = [rlhist EXCEPT !.failed = @ \/ ~okAdd \/ ~okExpire,
                                !.lastAdd = IF okAdd THEN rl.clock ELSE @]
    /\ rlev' = [op |-> "Check", res |-> "allow", status |-> 200,
                retryAfter |-> 0, failOpen |-> FALSE, quiet |-> rlc[i].quiet]
    /\ UNCHANGED nonRlVars

\* A second passes; a key whose time to live has run out is dropped.
Second ==
    /\ rl.clock < MaxClock
    /\ rl' = IF rl.expireAt # NoExpiry /\ rl.clock + 1 >= rl.expireAt
             THEN [rl EXCEPT !.clock = @ + 1, !.zset = {}, !.expireAt = NoExpiry]
             ELSE [rl EXCEPT !.clock = @ + 1]
    /\ UNCHANGED <<rlc, rlhist, rlev>>
    /\ UNCHANGED nonRlVars

----------------------------------------------------------------------------
(* SingleFlightCache: GetWithFallback over a Cache and a singleflight.Group *)

NoValue == 0 - 1    \* no value: a miss of the cache, the "" returned with an error
NoKey == "none"

\* NewSingleFlightCache over an empty cache: no entry, no call in the group.
NewSingleFlightCache ==
    [cache |-> [k \in Keys |-> NoValue],
     expireAt |-> [k \in Keys |-> NoExpiry],  \* end of the ttl last set
     clock |-> 0,                             \* the cache's clock
     group |-> [k \in Keys |-> NoCaller]]   \* per key: who runs the call in flight

\* A caller outside GetWithFallback. err = 0 is the nil error; the error of
\* fallback invocation n is n.
IdleGet == [pc |-> "idle", key |-> NoKey, val |-> NoValue, err |-> 0,
            cancelled |-> FALSE]   \* the caller's ctx has been cancelled

CoalescerIdle ==
    /\ sf = NewSingleFlightCache
    /\ sfc = [p \in Getters |-> IdleGet]
    /\ sfhist = [calls |-> 0,        \* GetWithFallback invocations
                 fallbacks |-> 0,    \* fallback invocations
                 keys |-> {},        \* the keys asked for
                 late |-> FALSE,     \* a double-check has found the value
                 unsaved |-> {},     \* values whose cache.Set failed
                 hit |-> FALSE,      \* a first Get has found the value
                 expired |-> FALSE,  \* an entry's ttl has run out
                 failed |-> FALSE]   \* a fallback has returned an error
    /\ sfev = [op |-> "New", val |-> NoValue, err |-> 0, shared |-> FALSE]

\* sfc.cache.Get: err == nil exactly when the key has an entry.
CacheHit(c, k) == c[k] # NoValue

\* fn without the double-check: the fallback is invoked whatever the cache
\* holds.
DoubleCheckSkipped(c, k) == FALSE

\* fn, double-check: sfc.cache.Get inside the function given to Do.
DoubleCheckHit(c, k) == CacheHit(c, k)

\* A cache that keeps its entries whatever their ttl.
ExpiredNever(at, t) == FALSE

\* The entry stored with a ttl ending at `at` is no longer served at time t.
Expired(at, t) == at # NoExpiry /\ at <= t

\* The end of a ttl set at time t; every end beyond the last clock reading is
\* the same end (the entry lives to the end of the run).
TtlEnd(t, ttl) == IF t + ttl > MaxCacheClock THEN MaxCacheClock + 1 ELSE t + ttl

\* fn passing the error of cache.Set on instead of the value.
SetResultFailing(r, ok) ==
    IF ok THEN [r EXCEPT !.pc = "fin"]
    ELSE [r EXCEPT !.pc = "fin", !.val = NoValue, !.err = r.val]

\* fn after sfc.cache.Set: setErr is looked at and dropped, fn returns
\* (value, nil).
SetResult(r, ok) == [r EXCEPT !.pc = "fin"]

\* A group whose Do never finds the call in flight.
DoNeverJoins(g, k) == FALSE

\* singleflight.Group.Do: a call for the key is in the group's map, so the
\* caller waits for it instead of running fn.
DoJoins(g, k) == g[k] # NoCaller

\* The callers for whom the fallback is executing / who wait in Do, per key.
InFallback(k) == {p \in Getters : sfc[p].pc = "fb" /\ sfc[p].key = k}
Waiting(k) == {p \in Getters : sfc[p].pc = "wait" /\ sfc[p].key = k}

\* What GetWithFallback hands back from Do's (result, err): "" with the error,
\* or the value with nil.
Returned(val, err, shared) ==
    [op |-> "Return", val |-> IF err # 0 THEN NoValue ELSE val, err |-> err,
     shared |-> shared]

\* GetWithFallback(ctx, key, ttl, fallback) is called. The callers run the
\* same code: the call is taken by the lowest-numbered caller that is free;
\* the keys are treated alike: FirstKey names the key that is asked for first.
GetCall(p, k) ==
    /\ sfc[p].pc = "idle"
    /\ \A q \in Getters : q < p => sfc[q].pc # "idle"
    /\ k = FirstKey \/ FirstKey \in sfhist.keys
    /\ sfhist.calls < MaxGets
    /\ sfc' = [sfc EXCEPT ![p] = [IdleGet EXCEPT !.pc = "get", !.key = k]]
    /\ sfhist' = [sfhist EXCEPT !.calls = @ + 1, !.keys = @ \cup {k}]
    /\ UNCHANGED <<sf, sfev>>
    /\ UNCHANGED nonSfVars

\* Check cache first: a hit returns the cached value.
FirstGet(p) ==
    /\ sfc[p].pc = "get"
    /\ IF CacheHit(sf.cache, sfc[p].key)
       THEN /\ sfev' = Returned(sf.cache[sfc[p].key], 0, FALSE)
            /\ sfc' = [sfc EXCEPT ![p] = IdleGet]
            /\ sfhist' = [sfhist EXCEPT !.hit = TRUE]
       ELSE /\ sfc' = [sfc EXCEPT ![p].pc = "do"]
            /\ UNCHANGED <<sfev, sfhist>>
    /\ UNCHANGED sf
    /\ UNCHANGED nonSfVars

\* sfc.group.Do(key, fn): join the call in flight, or register a new call and
\* run fn.
DoEnter(p) ==
    /\ sfc[p].pc = "do"
    /\ IF DoJoins(sf.group, sfc[p].key)
       THEN /\ sfc' = [sfc EXCEPT ![p].pc = "wait"]
            /\ UNCHANGED sf
       ELSE /\ sfc' = [sfc EXCEPT ![p].pc = "dc"]
            /\ sf' = [sf EXCEPT !.group[sfc[p].key] = p]
    /\ UNCHANGED <<sfhist, sfev>>
    /\ UNCHANGED nonSfVars

\* fn: double-check the cache; on a miss the fallback is invoked (val holds
\* the value this invocation is computing).
DoubleCheck(p) ==
    /\ sfc[p].pc = "dc"
    /\ IF DoubleCheckHit(sf.cache, sfc[p].key)
       THEN /\ sfc' = [sfc EXCEPT ![p].pc = "fin",
                                  ![p].val = sf.cache[sfc[p].key]]
            /\ sfhist' = [sfhist EXCEPT !.late = TRUE]
       ELSE /\ sfc' = [sfc EXCEPT ![p].pc = "fb",
                                  ![p].val = sfhist.fallbacks + 1]
            /\ sfhist' = [sfhist EXCEPT !.fallbacks = @ + 1]
    /\ UNCHANGED <<sf, sfev>>
    /\ UNCHANGED nonSfVars

\* fallback() returns: its value (invocation n yields the value n), or its
\* error, with which fn returns at once.
FallbackEnd(p, ok) ==
    /\ sfc[p].pc = "fb"
    /\ sfc' = [sfc EXCEPT ![p] =
                 IF ok THEN [@ EXCEPT !.pc = "set"]
                 ELSE [@ EXCEPT !.pc = "fin", !.val = NoValue,
                                !.err = sfc[p].val]]
    /\ sfhist' = [sfhist EXCEPT !.failed = @ \/ ~ok]
    /\ UNCHANGED <<sf, sfev>>
    /\ UNCHANGED nonSfVars

\* sfc.cache.Set(ctx, key, value, ttl); its error is not passed on.  ttl is
\* the ttl this caller gave to GetWithFallback, read here for the first time.
CacheSet(p, ok, ttl) ==
    /\ sfc[p].pc = "set"
    /\ sf' = IF ok THEN [sf EXCEPT !.cache[sfc[p].key] = sfc[p].val,
                                   !.expireAt[sfc[p].key] = TtlEnd(sf.clock, ttl)]
             ELSE sf
    /\ sfc' = [sfc EXCEPT ![p] = SetResult(@, ok)]
    /\ sfhist' = [sfhist EXCEPT
           !.unsaved = IF ok THEN @ ELSE @ \cup {sfc[p].val}]
    /\ UNCHANGED sfev
    /\ UNCHANGED nonSfVars

\* fn has returned: Do takes the call out of the group's map and releases the
\* callers waiting on it, who share its value and error; the caller that ran
\* fn returns from GetWithFallback.
DoFinish(p) ==
    /\ sfc[p].pc = "fin"
    /\ sf' = [sf EXCEPT !.group[sfc[p].key] = NoCaller]
    /\ sfc' = [q \in Getters |->
                 IF q = p THEN IdleGet
                 ELSE IF q \in Waiting(sfc[p].key)
                      THEN [sfc[q] EXCEPT !.pc = "woken",
                                          !.val = sfc[p].val,
                                          !.err = sfc[p].err]
                      ELSE sfc[q]]
    /\ sfev' = Returned(sfc[p].val, sfc[p].err, FALSE)
    /\ UNCHANGED sfhist
    /\ UNCHANGED nonSfVars

\* The ctx of a caller waiting in Do is cancelled.  Do takes no context: the
\* caller goes on waiting for the call in flight.
CtxCancel(p) ==
    /\ sfc[p].pc = "wait"
    /\ ~sfc[p].cancelled
    /\ sfc' = [sfc EXCEPT ![p].cancelled = TRUE]
    /\ UNCHANGED <<sf, sfhist, sfev>>
    /\ UNCHANGED nonSfVars

\* The cache's clock advances; the entries whose ttl has run out are gone.
CacheTick ==
    /\ sf.clock < MaxCacheClock
    /\ LET gone == {k \in Keys : /\ sf.cache[k] # NoValue
                                  /\ Expired(sf.expireAt[k], sf.clock + 1)}
       IN  /\ sf' = [sf EXCEPT
                  !.clock = @ + 1,
                  !.cache = [k \in Keys |-> IF k \in gone THEN NoValue ELSE @[k]]]
           /\ sfhist' = [sfhist EXCEPT !.expired = @ \/ gone # {}]
    /\ UNCHANGED <<sfc, sfev>>
    /\ UNCHANGED nonSfVars

\* A caller that waited in Do returns from GetWithFallback.
WaiterReturn(p) ==
    /\ sfc[p].pc = "woken"
    /\ sfev' = Returned(sfc[p].val, sfc[p].err, TRUE)
    /\ sfc' = [sfc EXCEPT ![p] = IdleGet]
    /\ UNCHANGED <<sf, sfhist>>
    /\ UNCHANGED nonSfVars

----------------------------------------------------------------------------
(* FanIn (pkg/performance/workerpool.go) *)

Inputs == 1..NumInputs
NoItem == 0 - 1

\* The state when FanIn(inputs...) returns, for n input channels of capacity
\* cap: output is open, wg has been raised once per input, one goroutine per
\* input is about to receive from it, and the closing goroutine is in wg.Wait.
\* The items of an input are numbered 1, 2, ... in the order they are sent.
FanIn(n, cap) ==
    [n |-> n,
     cap |-> cap,
     inputs |-> [i \in Inputs |-> [buf |-> << >>, closed |-> FALSE]],
     fwd |-> [i \in Inputs |->
                 [pc |-> IF i <= n THEN "recv" ELSE "none", item |-> NoItem]],
     wg |-> n,
     closer |-> "wait",
     outputClosed |-> FALSE]

FanInHistory ==
    [sent |-> [i \in Inputs |-> 0],       \* items sent on each input
     got |-> [i \in Inputs |-> << >>],    \* items of each input read from output
     panicked |-> FALSE,                  \* a goroutine sent on the closed output
     seen |-> FALSE]                      \* the consumer has seen output closed

FanInIdle ==
    /\ fi = FanIn(0, 0)
    /\ fihist = FanInHistory

\* wg.Wait() returns at once, whatever the counter.
WgWaitNoWait(n) == TRUE

\* wg.Wait() returns when the counter is zero.
WgWait(n) == n = 0

\* A receiver is parked on input i: a send hands the item to it directly.
Parked(f, i) == f.fwd[i].pc = "recv" /\ f.inputs[i].buf = << >>

\* A producer sends its next item on input i.
ProducerSend(i) ==
    /\ i <= fi.n
    /\ ~fi.inputs[i].closed
    /\ fihist.sent[i] < MaxItems
    /\ Parked(fi, i) \/ Len(fi.inputs[i].buf) < fi.cap
    /\ LET item == fihist.sent[i] + 1 IN
       /\ fi' = IF Parked(fi, i)
                THEN [fi EXCEPT !.fwd[i] = [pc |-> "send", item |-> item]]
                ELSE [fi EXCEPT !.inputs[i].buf = Append(@, item)]
       /\ fihist' = [fihist EXCEPT !.sent[i] = item]
    /\ UNCHANGED nonFiVars

\* A producer closes input i.
ProducerClose(i) ==
    /\ i <= fi.n
    /\ ~fi.inputs[i].closed
    /\ fi' = [fi EXCEPT !.inputs[i].closed = TRUE]
    /\ UNCHANGED <<fihist, nonFiVars>>

\* for item := range ch: the next buffered item, or the end of the loop and
\* the deferred wg.Done() once ch is closed and empty.
RangeNext(i) ==
    /\ fi.fwd[i].pc = "recv"
    /\ IF fi.inputs[i].buf # << >>
       THEN fi' = [fi EXCEPT !.fwd[i] = [pc |-> "send",
                                         item |-> Head(fi.inputs[i].buf)],
                             !.inputs[i].buf = Tail(@)]
       ELSE /\ fi.inputs[i].closed
            /\ fi' = [fi EXCEPT !.fwd[i] = [pc |-> "done", item |-> NoItem],
                                !.wg = @ - 1]
    /\ UNCHANGED <<fihist, nonFiVars>>

\* output <- item: output is unbuffered, so the send completes when the
\* consumer receives the item; on a closed output the send panics.
OutputSend(i) ==
    /\ fi.fwd[i].pc = "send"
    /\ ~fihist.panicked
    /\ IF fi.outputClosed
       THEN /\ fihist' = [fihist EXCEPT !.panicked = TRUE]
            /\ UNCHANGED fi
       ELSE /\ fihist' = [fihist EXCEPT !.got[i] = Append(@, fi.fwd[i].item)]
            /\ fi' = [fi EXCEPT !.fwd[i] = [pc |-> "recv", item |-> NoItem]]
    /\ UNCHANGED nonFiVars

\* wg.Wait(); close(output)
CloseOutput ==
    /\ fi.closer = "wait"
    /\ WgWait(fi.wg)
    /\ fi' = [fi EXCEPT !.closer = "done", !.outputClosed = TRUE]
    /\ UNCHANGED <<fihist, nonFiVars>>

\* The consumer's receive finds output closed.
ConsumerDone ==
    /\ fi.outputClosed
    /\ ~fihist.seen
    /\ fihist' = [fihist EXCEPT !.seen = TRUE]
    /\ UNCHANGED <<fi, nonFiVars>>

----------------------------------------------------------------------------
(* Specification of the circuit breaker *)

InitCB ==
    /\ \E mf \in 1..MaxFailuresBound, rt \in 1..MaxResetTimeout :
           cb = NewCircuitBreaker(mf, rt)
    /\ cbpc = [p \in Callers |-> "idle"]
    /\ now = 0
    /\ cbhist = [calls |-> 0, fnCalls |-> 0, streak |-> 0, overlap |-> FALSE,
                 trial |-> NoCaller]
    /\ cbev = [op |-> "New", p |-> NoCaller, res |-> "nil", pre |-> StateClosed]
    /\ BulkheadIdle
    /\ PoolIdle
    /\ LimiterIdle
    /\ CoalescerIdle
    /\ FanInIdle

NextCB ==
    \/ OnStateChange
    \/ \E p \in Callers : CallBegin(p)
    \/ \E p \in Callers, failed \in BOOLEAN : CallEnd(p, failed)
    \/ \E p \in Callers : ObserverReturn(p)
    \/ \E p \in Callers : ObserverReenters(p)
    \/ Tick

SpecCB == InitCB /\ [][NextCB]_vars

----------------------------------------------------------------------------
(* Specification of the bulkhead *)

BreakerIdle ==
    /\ cb = NewCircuitBreaker(1, 1)
    /\ cbpc = [p \in Callers |-> "idle"]
    /\ now = 0
    /\ cbhist = [calls |-> 0, fnCalls |-> 0, streak |-> 0, overlap |-> FALSE,
                 trial |-> NoCaller]
    /\ cbev = [op |-> "New", p |-> NoCaller, res |-> "nil", pre |-> StateClosed]

InitBH ==
    /\ \E mc \in 1..MaxConcurrencyBound : bh = NewBulkhead(mc)
    /\ bhpc = [p \in Executors |-> "idle"]
    /\ bhout = [p \in Executors |-> "none"]
    /\ bhhist = [full |-> FALSE, panicked |-> FALSE]
    /\ bhev = [op |-> "New", p |-> NoCaller, res |-> "nil",
               cancelled |-> FALSE, free |-> TRUE]
    /\ BreakerIdle
    /\ PoolIdle
    /\ LimiterIdle
    /\ CoalescerIdle
    /\ FanInIdle

NextBH ==
    \/ \E p \in Executors, cancelled \in BOOLEAN : Execute(p, cancelled)
    \/ \E p \in Executors : Enter(p)
    \/ \E p \in Executors, out \in {"nil", "err", "panic"} : FnEnd(p, out)
    \/ \E p \in Executors : DeferRecv(p)
    \/ \E p \in Executors : DeferDec(p)

SpecBH == InitBH /\ [][NextBH]_vars

----------------------------------------------------------------------------
(* Specification of the worker pool *)

InitWP ==
    /\ \E n \in 1..MaxWorkers, q \in 1..MaxQueueSize : wp = NewWorkerPool(n, q)
    /\ wpw = [w \in WorkerIds |-> [pc |-> "none", task |-> NoTask]]
    /\ wps = [s \in Submitters |-> [pc |-> "idle", task |-> NoTask]]
    /\ wpst = [c \in Stoppers |-> "idle"]
    /\ wphist = [next |-> 1,
                 status |-> [t \in Tasks |-> "new"],
                 accepted |-> {},
                 blocked |-> {},
                 stopAfterStart |-> FALSE,
                 crashed |-> FALSE]
    /\ wpev = [op |-> "New", res |-> "nil"]
    /\ BreakerIdle
    /\ BulkheadIdle
    /\ LimiterIdle
    /\ CoalescerIdle
    /\ FanInIdle

NextWP ==
    \/ Start
    \/ \E s \in Submitters : SubmitCall(s)
    \/ \E s \in Submitters : SubmitSelect(s)
    \/ \E w \in WorkerIds : WorkerSelect(w)
    \/ \E w \in WorkerIds : TaskDone(w)
    \/ \E c \in Stoppers : StopClose(c)
    \/ \E c \in Stoppers : StopCancel(c)
    \/ \E c \in Stoppers : StopWait(c)

SpecWP == InitWP /\ [][NextWP]_vars

\* worker's select takes ctx.Done(): the worker returns.
WorkerExit(w) == WorkerSelect(w) /\ wpw'[w].pc = "exited"

\* The scheduler runs every goroutine that can take a step: a task that is
\* running terminates, Stop goes on to its next statement, and a worker whose
\* select can take ctx.Done() again and again does take it at some point (the
\* select chooses fairly among its ready cases).
FairnessWP ==
    /\ \A w \in WorkerIds : WF_vars(TaskDone(w)) /\ SF_vars(WorkerExit(w))
    /\ \A c \in Stoppers : WF_vars(StopCancel(c)) /\ WF_vars(StopWait(c))

SpecWPFair == SpecWP /\ FairnessWP

----------------------------------------------------------------------------
(* Specification of the rate limiter *)

InitRL ==
    /\ \E l \in 1..MaxLimit, w \in 1..MaxWindow : rl = NewRateLimiter(l, w)
    /\ rlc = [i \in Instances |-> IdleCheck]
    /\ rlhist = [checks |-> 0, overlap |-> FALSE,
                 failed |-> FALSE, denied |-> FALSE, lastAdd |-> NoExpiry]
    /\ rlev = [op |-> "New", res |-> "nil", status |-> 200,
               retryAfter |-> 0, failOpen |-> FALSE, quiet |-> FALSE]
    /\ BreakerIdle
    /\ BulkheadIdle
    /\ PoolIdle
    /\ CoalescerIdle
    /\ FanInIdle

NextRL ==
    \/ \E i \in Instances : CheckBegin(i)
    \/ \E i \in Instances, ok \in BOOLEAN : CheckRemove(i, ok)
    \/ \E i \in Instances, ok \in BOOLEAN : CheckCount(i, ok)
    \/ \E i \in Instances, okAdd \in BOOLEAN, okExpire \in BOOLEAN :
           CheckAdd(i, okAdd, okExpire)
    \/ Second

SpecRL == InitRL /\ [][NextRL]_vars

----------------------------------------------------------------------------
(* Specification of the single-flight cache *)

InitSF ==
    /\ CoalescerIdle
    /\ BreakerIdle
    /\ BulkheadIdle
    /\ PoolIdle
    /\ LimiterIdle
    /\ FanInIdle

NextSF ==
    \/ \E p \in Getters, k \in Keys : GetCall(p, k)
    \/ \E p \in Getters : FirstGet(p)
    \/ \E p \in Getters : DoEnter(p)
    \/ \E p \in Getters : DoubleCheck(p)
    \/ \E p \in Getters, ok \in BOOLEAN : FallbackEnd(p, ok)
    \/ \E p \in Getters, ok \in BOOLEAN, ttl \in 1..MaxTtl : CacheSet(p, ok, ttl)
    \/ \E p \in Getters : DoFinish(p)
    \/ \E p \in Getters : WaiterReturn(p)
    \/ \E p \in Getters : CtxCancel(p)
    \/ CacheTick

SpecSF == InitSF /\ [][NextSF]_vars

----------------------------------------------------------------------------
(* Specification of FanIn *)

InitFI ==
    /\ \E n \in 0..NumInputs, cap \in 0..MaxInputCap : fi = FanIn(n, cap)
    /\ fihist = FanInHistory
    /\ BreakerIdle
    /\ BulkheadIdle
    /\ PoolIdle
    /\ LimiterIdle
    /\ CoalescerIdle

NextFI ==
    \/ \E i \in Inputs : ProducerSend(i)
    \/ \E i \in Inputs : ProducerClose(i)
    \/ \E i \in Inputs : RangeNext(i)
    \/ \E i \in Inputs : OutputSend(i)
    \/ CloseOutput
    \/ ConsumerDone

SpecFI == InitFI /\ [][NextFI]_vars

\* The goroutines started by FanIn keep running, and the consumer keeps
\* reading from output (each send on output finds its receiver).
FairnessFI ==
    /\ \A i \in Inputs : WF_vars(RangeNext(i)) /\ WF_vars(OutputSend(i))
    /\ WF_vars(CloseOutput)

SpecFIFair == SpecFI /\ FairnessFI

----------------------------------------------------------------------------
(* Properties of the circuit breaker, checked under SpecCB *)

\* The step is an invocation of Call / the return of fn in some Call.
IsCallStep == cbhist'.calls = cbhist.calls + 1
IsReturnStep == \E p \in Callers : cbpc[p] = "fn" /\ cbpc'[p] = "idle"
IsTrialReturnStep ==
    /\ cbhist.trial # NoCaller
    /\ cbpc[cbhist.trial] = "fn"
    /\ cbpc'[cbhist.trial] = "idle"

\* C1: under any interleaving of concurrent Calls the state changes only
\* Closed->Open (then failureCount >= maxFailures), Open->HalfOpen (inside a
\* Call, resetTimeout having elapsed since lastFailTime), HalfOpen->Closed
\* (on a recorded success) and HalfOpen->Open (on a recorded failure);
\* Closed->HalfOpen and Open->Closed never occur.
C1_OnlyLegalTransitions ==
    [][cb'.state # cb.state =>
         \/ /\ cb.state = StateClosed /\ cb'.state = StateOpen
            /\ IsReturnStep /\ cbev'.res = "err"
            /\ cb'.failureCount >= cb.maxFailures
         \/ /\ cb.state = StateOpen /\ cb'.state = StateHalfOpen
            /\ IsCallStep
            /\ Since(cb.lastFailTime) >= cb.resetTimeout
         \/ /\ cb.state = StateHalfOpen /\ cb'.state = StateClosed
            /\ IsReturnStep /\ cbev'.res = "nil"
         \/ /\ cb.state = StateHalfOpen /\ cb'.state = StateOpen
            /\ IsReturnStep /\ cbev'.res = "err"]_vars

\* C1 witness: a HalfOpen->Closed change in a run where calls overlapped.
C1_Witness ==
    /\ cbhist.overlap
    /\ cbev.pre = StateHalfOpen
    /\ cb.state = StateClosed

\* C2: with calls made one at a time, the breaker is Open once maxFailures
\* failures have been recorded with no success in between and Closed after
\* any smaller number; in Closed, failureCount is the number of failures since
\* the last success (a success resets it to 0).
C2_TripAtThreshold ==
    (~cbhist.overlap /\ InFn = {}) =>
        /\ cbhist.streak < cb.maxFailures =>
               cb.state = StateClosed /\ cb.failureCount = cbhist.streak
        /\ cbhist.streak >= cb.maxFailures => cb.state = StateOpen

\* C2 witness: the maxFailures-th consecutive failure has just opened the
\* breaker, for the largest threshold of the model.
C2_Witness ==
    /\ ~cbhist.overlap /\ InFn = {}
    /\ cb.maxFailures = MaxFailuresBound
    /\ cbhist.streak = cb.maxFailures
    /\ cbev.pre = StateClosed
    /\ cb.state = StateOpen

\* C3: a Call made while the state is Open and less than resetTimeout has
\* elapsed since lastFailTime returns ErrCircuitOpen without invoking fn,
\* leaves state, failureCount and lastFailTime unchanged and does not notify
\* the observer.
C3_FastFail ==
    [][(IsCallStep /\ cb.state = StateOpen
            /\ Since(cb.lastFailTime) < cb.resetTimeout) =>
         /\ cbev'.res = "ErrCircuitOpen"
         /\ cbpc' = cbpc
         /\ cbhist'.fnCalls = cbhist.fnCalls
         /\ cb'.state = cb.state
         /\ cb'.failureCount = cb.failureCount
         /\ cb'.lastFailTime = cb.lastFailTime
         /\ cb'.notified = cb.notified]_vars

\* C3 witness: a call has just been failed fast on a breaker with an observer.
C3_Witness ==
    /\ cbev.op = "Call"
    /\ cbev.res = "ErrCircuitOpen"
    /\ cb.onStateChange
    /\ cb.state = StateOpen

\* C4: a Call made while the state is Open and resetTimeout has elapsed moves
\* the state to HalfOpen and invokes fn (the trial); when the trial returns
\* success the state becomes Closed with failureCount 0, and when it returns
\* failure the state becomes Open with lastFailTime renewed.
C4_TrialDecides ==
    [][/\ (IsCallStep /\ cb.state = StateOpen
               /\ Since(cb.lastFailTime) >= cb.resetTimeout) =>
            /\ cb'.state = StateHalfOpen
            /\ cbpc'[cbev'.p] = "fn"
       /\ (IsTrialReturnStep /\ cbev'.res = "nil") =>
            /\ cb'.state = StateClosed
            /\ cb'.failureCount = 0
       /\ (IsTrialReturnStep /\ cbev'.res = "err") =>
            /\ cb'.state = StateOpen
            /\ cb'.lastFailTime = now]_vars

\* C5: while the state is HalfOpen and the trial's fn has not returned, no
\* other Call invokes its fn.
C5_SingleTrial ==
    [][(cb.state = StateHalfOpen /\ cbhist.trial # NoCaller) =>
         \A p \in Callers \ {cbhist.trial} :
             ~(cbpc[p] = "idle" /\ cbpc'[p] = "fn")]_vars

----------------------------------------------------------------------------
(* Properties of the bulkhead, checked under SpecBH *)

Executing == {p \in Executors : bhpc[p] = "fn"}
AllReturned == \A p \in Executors : bhpc[p] = "idle"
IsExecuteStep == bhev'.op = "Execute"

\* C6: at every moment the number of Execute calls whose fn is executing is
\* at most maxConcurrency.
C6_ExecutingAtMostMax == Cardinality(Executing) <= bh.maxConcurrency

\* C6 witness: maxConcurrency (the largest of the model) calls execute fn at
\* once and a further call has just been turned away.
C6_Witness ==
    /\ bh.maxConcurrency = MaxConcurrencyBound
    /\ Cardinality(Executing) = bh.maxConcurrency
    /\ bhev.op = "Execute"
    /\ bhev.res = ErrBulkheadFull

\* C7: in every reachable state 0 <= current <= maxConcurrency, so
\* CurrentConcurrency() is never above MaxConcurrency() nor below 0.
C7_CounterWithinBounds ==
    0 <= CurrentConcurrency /\ CurrentConcurrency <= MaxConcurrency

\* C8: an Execute that finds all maxConcurrency slots occupied, with a context
\* that is not cancelled, returns ErrBulkheadFull in that same step: fn is not
\* invoked, the caller does not wait, and current and the slots are unchanged.
C8_FailFastWhenFull ==
    [][(IsExecuteStep /\ ~bhev'.cancelled
            /\ bh.semaphore = bh.maxConcurrency) =>
         /\ bhev'.res = ErrBulkheadFull
         /\ bhpc' = bhpc
         /\ bh' = bh]_vars

\* C8 witness: a call with a live context has just been rejected by a
\* saturated bulkhead.
C8_Witness ==
    /\ bhev.op = "Execute"
    /\ ~bhev.cancelled
    /\ bhev.res = ErrBulkheadFull
    /\ bh.semaphore = bh.maxConcurrency

\* C9: an Execute called with an already cancelled context returns the
\* context's error without attempting admission, whether or not a slot is
\* free: fn is not invoked and no slot is occupied.
C9_CancelledNeverAdmitted ==
    [][(IsExecuteStep /\ bhev'.cancelled) =>
         /\ bhev'.res = CtxErr
         /\ bhpc' = bhpc
         /\ bh' = bh]_vars

\* C10: every admitted Execute gives back its slot and its unit of current
\* when fn ends, whether fn returns nil, returns an error or panics: the slots
\* taken and current count exactly the calls still between admission and
\* release; once all calls have returned, current = 0 and every slot is free;
\* and an Execute with a live context that finds a free slot is admitted.
C10_ReleaseAlways ==
    /\ [](bh.semaphore =
            Cardinality({p \in Executors :
                            bhpc[p] \in {"acquired", "fn", "deferRecv"}}))
    /\ [](bh.current =
            Cardinality({p \in Executors :
                            bhpc[p] \in {"fn", "deferRecv", "deferDec"}}))
    /\ [](AllReturned => bh.current = 0 /\ bh.semaphore = 0)
    /\ [][(IsExecuteStep /\ ~bhev'.cancelled
               /\ bh.semaphore < bh.maxConcurrency) =>
            bhev'.res = "admitted"]_vars

\* C10 witness: the bulkhead had been saturated, a call whose fn panicked has
\* returned, and a later call has just been admitted into the freed slot.
C10_Witness ==
    /\ bhhist.full
    /\ bhhist.panicked
    /\ bhev.op = "Execute"
    /\ bhev.res = "admitted"
    /\ bh.semaphore = bh.maxConcurrency

----------------------------------------------------------------------------
(* Properties of the worker pool, checked under SpecWP *)

SubmitReturns(s) == wps[s].pc = "submitting" /\ wps'[s].pc = "idle"
QueuedTasks == {wp.taskQueue[i] : i \in 1..Len(wp.taskQueue)}

\* C11: for a pool of N workers and queue capacity Q, started once, at most N
\* tasks execute at the same time and at most Q tasks are queued and not yet
\* running, in every reachable state.
C11_PoolBounds ==
    /\ Cardinality(Running) <= wp.workers
    /\ Len(wp.taskQueue) <= wp.queueSize
    /\ \A t \in Tasks :
           (wphist.status[t] = "queued") = (t \in QueuedTasks)

\* C11 witness: every worker of the largest pool runs a task and the queue is
\* full.
C11_Witness ==
    /\ wp.workers = MaxWorkers
    /\ Cardinality(Running) = wp.workers
    /\ Len(wp.taskQueue) = wp.queueSize

\* C12: while the queue holds its full capacity (and the pool has not been
\* stopped) a Submit waiting at the select does not return; a Submit returns
\* nil only in a step that finds room in the queue, and its task is then in
\* the queue.
C12_Backpressure ==
    /\ [][\A s \in Submitters :
            (/\ wps[s].pc = "submitting"
             /\ Len(wp.taskQueue) = wp.queueSize
             /\ ~wp.closed /\ ~wp.cancelled) =>
                wps'[s].pc = "submitting"]_vars
    /\ [][\A s \in Submitters :
            (SubmitReturns(s) /\ wpev'.res = "nil") =>
                /\ Len(wp.taskQueue) < wp.queueSize
                /\ Len(wp'.taskQueue) <= wp.queueSize
                /\ wp'.taskQueue = Append(wp.taskQueue, wps[s].task)]_vars

\* C12 witness: a Submit that arrived while every worker was busy and the
\* queue was full has now returned nil, its task being the newest in the queue.
C12_Witness ==
    /\ wpev.op = "Submit"
    /\ wpev.res = "nil"
    /\ Len(wp.taskQueue) > 0
    /\ wp.taskQueue[Len(wp.taskQueue)] \in wphist.blocked

\* C13: once Stop has been called (the queue is closed or the context is
\* cancelled), a Submit that completes returns the cancellation error; it
\* does not panic and does not report success.
C13_SubmitAfterStop ==
    [][\A s \in Submitters :
         (SubmitReturns(s) /\ (wp.closed \/ wp.cancelled)) =>
             wpev'.res = CtxErr]_vars

\* C14: when a Stop on a started pool has returned, every task whose Submit
\* returned nil has been executed to completion, every worker has exited and
\* no task is left in the queue.
C14_GracefulStop ==
    (wphist.stopAfterStart /\ \E c \in Stoppers : wpst[c] = "returned") =>
        /\ \A t \in wphist.accepted : wphist.status[t] = "done"
        /\ \A w \in 1..wp.workers : wpw[w].pc = "exited"
        /\ wp.taskQueue = <<>>

\* C15: a second call to Stop, after or concurrently with the first, returns
\* normally: no call to Stop panics.
C15_StopIdempotent == \A c \in Stoppers : wpst[c] # "panicked"

----------------------------------------------------------------------------
(* Properties of the rate limiter, checked under SpecRL *)

\* The step in which instance i lets its request through after recording it.
IsRecordedAllow(i) == rlc[i].pc = "add" /\ rlc'[i].pc = "idle"

\* The entries of the record that lie in the window of a check made at t.
InWindow(z, t, window) == {e \in z : e.score >= t - window}

\* C16: with the checks made one after another, the store reachable and all
\* of them inside one window (less than window seconds since the first),
\* each of the first limit checks is allowed and check number limit + 1 is
\* denied with status 429 and a retry-after equal to the window.
C16_LimitPerWindow ==
    (/\ rlev.op = "Check"
     /\ Checking = {}
     /\ ~rlhist.overlap
     /\ ~rlhist.failed
     /\ rl.clock < rl.window) =>
        /\ rlhist.checks <= rl.limit => rlev.res = "allow"
        /\ rlhist.checks = rl.limit + 1 =>
               /\ rlev.res = "deny"
               /\ rlev.status = StatusTooManyRequests
               /\ rlev.retryAfter = rl.window

\* C17: whenever a check reports allow after recording its request, with the
\* store reachable throughout, the record holds at most limit entries with
\* timestamp >= now - window, the new one included, however the checks of
\* the instances interleave.
C17_WindowInvariant ==
    [][\A i \in Instances :
         (IsRecordedAllow(i) /\ ~rlhist'.failed) =>
             Cardinality(InWindow(rl'.zset, rlc[i].now, rl.window))
                 <= rl.limit]_vars

\* The step in which instance i ends its check at the count: 429, or c.Next()
\* on the count's error.
IsDecision(i) == rlc[i].pc = "card" /\ rlc'[i].pc = "idle"

\* C18: a check whose count returns an error lets the request through; and,
\* with the checks made one after another, a store failure never produces a
\* deny: a check is denied only when the entries of the record that lie in its
\* window (those a successful removal leaves) number limit or more.
C18_FailOpen ==
    /\ [][\A i \in Instances :
            CheckCount(i, FALSE) => rlev'.res = "allow"]_vars
    /\ [][\A i \in Instances :
            (IsDecision(i) /\ rlev'.res = "deny" /\ ~rlhist.overlap) =>
                ZCard(ZRemRangeByScore(rl.zset, 0, rlc[i].now - rl.window))
                    >= rl.limit]_vars

\* C19: a denied check leaves the record of the identifier as it was; and a
\* check that begins a full window or more after the last recorded request,
\* with the store reachable and no request recorded meanwhile, is not denied.
C19_Recovery ==
    /\ [][\A i \in Instances :
            (IsDecision(i) /\ rlev'.res = "deny") => rl' = rl]_vars
    /\ [][\A i \in Instances :
            (IsDecision(i) /\ rlc[i].quiet) => rlev'.res = "allow"]_vars

\* C19 witness: after an earlier check was denied, a check made a full window
\* after the last recorded request has been counted and allowed.
C19_Witness ==
    /\ rlhist.denied
    /\ rlev.op = "Check"
    /\ rlev.res = "allow"
    /\ rlev.quiet
    /\ ~rlev.failOpen

----------------------------------------------------------------------------
(* Properties of the single-flight cache, checked under SpecSF *)

\* C20: for each key at most one execution of the fallback is in flight in
\* any reachable state; when the call in flight ends, every caller waiting on
\* it is handed the value and the error that execution produced, and that is
\* what each of them returns.
C20_SingleFlight ==
    /\ [](\A k \in Keys : Cardinality(InFallback(k)) <= 1)
    /\ [][\A p \in Getters : \A q \in Waiting(sfc[p].key) :
            (sfc[p].pc = "fin" /\ sfc'[p].pc = "idle") =>
                /\ sfc'[q].pc = "woken"
                /\ sfc'[q].val = sfc[p].val
                /\ sfc'[q].err = sfc[p].err
                /\ sfev' = Returned(sfc[p].val, sfc[p].err, FALSE)]_vars
    /\ [][\A q \in Getters :
            (sfc[q].pc = "woken" /\ sfc'[q].pc = "idle") =>
                sfev' = Returned(sfc[q].val, sfc[q].err, TRUE)]_vars

\* C20 witness: a caller that waited on a call in flight has returned the
\* value of the latest fallback invocation, which ran once for two or more
\* calls.
C20_Witness ==
    /\ sfev.op = "Return"
    /\ sfev.shared
    /\ sfev.err = 0
    /\ sfev.val = sfhist.fallbacks
    /\ sfhist.fallbacks >= 1

\* No caller is inside GetWithFallback.
AllGetsReturned == \A p \in Getters : sfc[p].pc = "idle"

\* C21: in a run whose calls all ask for the same key, with the fallback
\* succeeding, the cache storing what it is given and no ttl running out
\* meanwhile, the fallback is invoked
\* at most once, every call that returns returns the value of that one
\* invocation with a nil error, and once all calls have returned the
\* fallback has been invoked exactly once.
C21_ExactlyOnce ==
    (/\ Cardinality(sfhist.keys) = 1
     /\ sfhist.unsaved = {}
     /\ ~sfhist.failed
     /\ ~sfhist.expired) =>
        /\ sfhist.fallbacks <= 1
        /\ sfev.op = "Return" => (sfev.val = 1 /\ sfev.err = 0)
        /\ AllGetsReturned => sfhist.fallbacks = 1

\* C21 witness: MaxGets calls for one key have all returned, one of them
\* having found the value at the double-check (it missed the cache before the
\* value was stored and entered the group after the leader had finished), and
\* the fallback ran once.
C21_Witness ==
    /\ Cardinality(sfhist.keys) = 1
    /\ sfhist.unsaved = {}
    /\ ~sfhist.failed
    /\ ~sfhist.expired
    /\ sfhist.calls = MaxGets
    /\ AllGetsReturned
    /\ sfhist.late
    /\ sfhist.fallbacks = 1

\* C22: when cache.Set fails after a successful fallback, the function given
\* to Do still returns the fresh value with a nil error; no caller, leader or
\* waiter, holds or returns an error for a value whose Set failed.
C22_SetFailureIgnored ==
    /\ [][\A p \in Getters :
            (sfc[p].pc = "set" /\ sfc'[p].pc # "set") =>
                /\ sfc'[p].pc = "fin"
                /\ sfc'[p].val = sfc[p].val
                /\ sfc'[p].err = 0]_vars
    /\ [](\A n \in sfhist.unsaved :
             /\ sfev.err # n
             /\ \A p \in Getters : sfc[p].err # n)

\* C22 witness: a caller that waited on the call in flight has returned, with
\* a nil error, a value whose cache.Set had failed.
C22_Witness ==
    /\ sfev.op = "Return"
    /\ sfev.shared
    /\ sfev.err = 0
    /\ sfev.val \in sfhist.unsaved

\* The ttl last set for the key of caller p has run out.
TtlElapsed(p) ==
    /\ sf.expireAt[sfc[p].key] # NoExpiry
    /\ sf.clock >= sf.expireAt[sfc[p].key]

\* C23: a call whose first Get comes while the key holds a value returns that
\* value and the fallback is not invoked; once the ttl last set for the key
\* has run out, a call's first Get misses, and the double-check of the call
\* that leads the group misses too and invokes the fallback again; a call
\* made while no other call is inside GetWithFallback leads its group.
C23_TtlHonoured ==
    /\ [][\A p \in Getters :
            (sfc[p].pc = "get" /\ sfc'[p].pc # "get") =>
                IF TtlElapsed(p) \/ ~CacheHit(sf.cache, sfc[p].key)
                THEN sfc'[p].pc = "do"
                ELSE /\ sfc'[p].pc = "idle"
                     /\ sfev' = Returned(sf.cache[sfc[p].key], 0, FALSE)
                     /\ sfhist'.fallbacks = sfhist.fallbacks]_vars
    /\ [][\A p \in Getters :
            (sfc[p].pc = "dc" /\ sfc'[p].pc # "dc" /\ TtlElapsed(p)) =>
                /\ sfc'[p].pc = "fb"
                /\ sfhist'.fallbacks = sfhist.fallbacks + 1]_vars
    /\ [][\A p \in Getters :
            (/\ sfc[p].pc = "do" /\ sfc'[p].pc # "do"
             /\ \A q \in Getters \ {p} : sfc[q].pc = "idle") =>
                sfc'[p].pc = "dc"]_vars

\* C23 witness: three calls for one key, one after another, have returned:
\* one ran the fallback and stored its value, one found the value in the
\* cache, and after the ttl ran out the last one ran the fallback again.
C23_Witness ==
    /\ Cardinality(sfhist.keys) = 1
    /\ sfhist.unsaved = {}
    /\ ~sfhist.failed
    /\ ~sfhist.late
    /\ sfhist.hit
    /\ sfhist.expired
    /\ sfhist.calls = MaxGets
    /\ AllGetsReturned
    /\ sfhist.fallbacks = 2
    /\ sfev = Returned(2, 0, FALSE)

\* C24: a caller waiting on another caller's call in flight whose context
\* has been cancelled leaves the wait by returning the cancellation error,
\* not by being handed the result when the leader's call completes.
C24_WaiterCancellation ==
    [][\A p \in Getters :
         (sfc[p].pc = "wait" /\ sfc[p].cancelled /\ sfc'[p].pc # "wait") =>
             /\ sfc'[p].pc = "idle"
             /\ sfev'.op = "Cancelled"]_vars

----------------------------------------------------------------------------
(* Properties of the circuit breaker's observer and of stale outcomes,
   checked under SpecCB *)

\* C25: the observer never runs while the breaker's lock is held: in every
\* reachable state no caller holds mu on behalf of a running observer, and no
\* observer is stuck waiting for mu after calling State() or Call().
C25_ObserverOutsideLock ==
    /\ cb.mu = NoCaller
    /\ ~cb.reentered

\* C26: in every step, a registered observer is called exactly when the state
\* changes, once, with the pair (state before, state after), added after the
\* pairs of the earlier changes; a step that leaves the state unchanged, or
\* that is taken with no observer registered, calls no observer.
C26_NotifiedOncePerChange ==
    [][IF cb.onStateChange /\ cb'.state # cb.state
       THEN cb'.notified = Append(cb.notified, <<cb.state, cb'.state>>)
       ELSE cb'.notified = cb.notified]_vars

\* C26 witness: the observer has been told of a full cycle, Closed->Open,
\* Open->HalfOpen and HalfOpen->Closed, in that order, and a later call has
\* ended without a state change.
C26_Witness ==
    /\ cb.onStateChange
    /\ cb.notified = << <<StateClosed, StateOpen>>,
                        <<StateOpen, StateHalfOpen>>,
                        <<StateHalfOpen, StateClosed>> >>
    /\ cbev.op = "Return"
    /\ cbev.pre = StateClosed
    /\ cb.state = StateClosed

\* C28: the state leaves HalfOpen only in the step in which the trial call
\* (the one admitted on the Open->HalfOpen change) returns; the return of a
\* call admitted earlier does not move the state out of HalfOpen.
C28_OnlyTrialLeavesHalfOpen ==
    [][(cb.state = StateHalfOpen /\ cb'.state # StateHalfOpen) =>
         IsTrialReturnStep]_vars

----------------------------------------------------------------------------
(* Recording in the rate limiter, checked under SpecRL *)

\* C29: with the store reachable, every request that is allowed after being
\* recorded adds one new entry to the record of its identifier, also when
\* another request was recorded in the same second.
C29_EveryAllowRecorded ==
    [][\A i \in Instances :
         (IsRecordedAllow(i) /\ ~rlhist'.failed) =>
             ZCard(rl'.zset) = ZCard(rl.zset) + 1]_vars

----------------------------------------------------------------------------
(* Termination of Stop, checked under SpecWPFair *)

\* C30: every call to Stop eventually returns.
C30_StopTerminates ==
    \A c \in Stoppers : (wpst[c] # "idle") ~> (wpst[c] = "returned")

----------------------------------------------------------------------------
(* FanIn, checked under SpecFIFair *)

ActiveInputs == {i \in Inputs : i <= fi.n}

AllInputsClosed == \A i \in ActiveInputs : fi.inputs[i].closed

\* Input i is closed and everything sent on it has been read from output.
Drained(i) ==
    /\ fi.inputs[i].closed
    /\ fi.inputs[i].buf = << >>
    /\ fi.fwd[i].pc = "done"
    /\ Len(fihist.got[i]) = fihist.sent[i]

\* The items of input i come out once each, in the order they were sent.
InOrder(i) ==
    /\ Len(fihist.got[i]) <= fihist.sent[i]
    /\ \A k \in 1..Len(fihist.got[i]) : fihist.got[i][k] = k

FanInSafe ==
    /\ \A i \in ActiveInputs : InOrder(i)
    /\ fi.outputClosed => \A i \in ActiveInputs : Drained(i)
    /\ ~fihist.panicked

\* C27: output is closed only after every input is closed and drained, every
\* item sent on an input has by then been delivered on output exactly once and
\* in the order of its input, and with a consumer that keeps reading output is
\* eventually closed once all inputs are closed.
C27_FanIn == []FanInSafe /\ (AllInputsClosed ~> fi.outputClosed)

C27_Witness ==
    /\ fihist.seen
    /\ fi.n = NumInputs
    /\ \A i \in Inputs : fihist.sent[i] = MaxItems /\ Len(fihist.got[i]) = MaxItems

====
